---- MODULE Spec2Model ----
(***************************************************************************)
(* Model of the BankingNewsletter downloaders: the retrying page fetcher   *)
(* (fetch_url), the per-site link resolvers, the download sink             *)
(* (download_file, extract_zip), the four scripts' main blocks and the     *)
(* orchestrator (run-all-script.py).                                       *)
(*                                                                         *)
(* Strings are sequences of lexemes.  A lexeme is an atom of text; the     *)
(* separators "/" and "?" and the extensions ".xls", ".xlsx", ".zip" are   *)
(* lexemes of their own, so every literal the code tests for (split("/"),  *)
(* split("?"), startswith("http"), endswith(".xlsx"), "x" in href) is a    *)
(* whole number of lexemes and the string operations below are exact.      *)
(***************************************************************************)
EXTENDS Integers, Sequences, FiniteSets, TLC

VARIABLES
    \* ---- fetch_url (one call) ----
    fpc,          \* position in fetch_url: "loop", "returned", "failed"
    retries,      \* parameter retries
    wait0,        \* parameter wait_time as passed in
    wait_time,    \* local wait_time (doubled in the blocked branch)
    attempt,      \* number of loop iterations completed
    gets,         \* number of requests.get calls issued
    sleeps,       \* the arguments of time.sleep, in call order
    outcomes,     \* what each attempt met: "blocked", "error", "ok"
    \* ---- one resolver call ----
    rpc,          \* "fetched" (fetch_url returned), "resolved"
    site,         \* the site the page is of
    fetched,      \* what fetch_url returned
    resolver,     \* the resolver that ran
    resolved,     \* what it returned
    \* ---- the destination folders ----
    disk,         \* path -> content of the files written
    extract_calls,\* the paths of the valid ZIPs extract_zip opened
    \* ---- one call of extract_zip ----
    zpc,          \* "call", "returned"
    zip_arg,      \* the argument zip_path (None or a path)
    extracted,    \* the members handed to zip_ref.extract, in order
    \* ---- one run of a downloader script ----
    script,       \* the script that runs
    spc,          \* position in its main block
    queue,        \* the resolved URLs the current loop has yet to take
    calls,        \* the download_file calls of the category being processed
    visited,      \* the categories processed so far, with whether a link was found
    error,        \* the exception that ended the script, "none" if none
    \* ---- the orchestrator ----
    opc,          \* "scripts", "completed"
    next_script,  \* index into scripts of the script to run next
    ran,          \* the scripts run so far, each with how it ended
    notices       \* the notices main printed

fetchVars == <<fpc, retries, wait0, wait_time, attempt, gets, sleeps, outcomes>>
resolveVars == <<rpc, site, fetched, resolver, resolved>>
diskVars == <<disk, extract_calls>>
zipVars == <<zpc, zip_arg, extracted>>
scriptVars == <<script, spc, queue, calls, visited, error>>
orchVars == <<opc, next_script, ran, notices>>

vars == <<fetchVars, resolveVars, diskVars, zipVars, scriptVars, orchVars>>

----------------------------------------------------------------------------
(* Bounds of the model *)

MaxRetries == 3
MaxNodes == 2
MaxMembers == 3

----------------------------------------------------------------------------
(* Python values: None, str operations on lexeme sequences, dict *)

\* an optional value: None is the empty tuple, a value v is <<v>>
None == <<>>
Some(v) == <<v>>

\* s.split(sep): the pieces of s between occurrences of the lexeme sep
RECURSIVE Split(_, _)
Split(s, sep) ==
    IF \A i \in 1..Len(s) : s[i] # sep
      THEN <<s>>
      ELSE LET i == CHOOSE j \in 1..Len(s) :
                      s[j] = sep /\ \A k \in 1..(j - 1) : s[k] # sep
           IN  <<SubSeq(s, 1, i - 1)>> \o Split(SubSeq(s, i + 1, Len(s)), sep)

\* pieces[-1] and pieces[0]
LastOf(pieces) == pieces[Len(pieces)]
FirstOf(pieces) == pieces[1]

\* s.endswith(ext), ext one lexeme
EndsWith(s, ext) == Len(s) > 0 /\ s[Len(s)] = ext

\* sub in s, sub a lexeme sequence
Contains(s, sub) ==
    \E i \in 0..(Len(s) - Len(sub)) : SubSeq(s, i + 1, i + Len(sub)) = sub

\* the lexemes that begin with the characters "http"
HttpLexemes == {"https:", "http:", "httpdocs"}

\* s.startswith("http")
StartsWithHttp(s) == Len(s) > 0 /\ s[1] \in HttpLexemes

\* str.lower() on the lexemes that hold capitals
LowerLexeme(x) ==
    CASE x = "Back-Series" -> "back-series"
      [] x = "Monthly" -> "monthly"
      [] OTHER -> x
Lower(s) == [i \in 1..Len(s) |-> LowerLexeme(s[i])]

\* a dict is the sequence of its items in insertion order
DictKeys(d) == {d[i].k : i \in 1..Len(d)}
DictSet(d, key, val) ==
    IF key \in DictKeys(d)
      THEN [i \in 1..Len(d) |-> IF d[i].k = key THEN [k |-> key, v |-> val] ELSE d[i]]
      ELSE Append(d, [k |-> key, v |-> val])
DictValues(d) == [i \in 1..Len(d) |-> d[i].v]

----------------------------------------------------------------------------
(* Resilient fetcher: fetch_url, identical in the four scripts *)

\* the statuses a server answers with, and whether the body holds "captcha"
Statuses == {200, 403, 404, 429, 500, 503}
Responses == [status_code : Statuses, captcha : BOOLEAN]

is_blocked(response) ==
    (response.status_code \in {403, 429, 503}) \/ response.captcha

\* wait_time parameters tried: the default and one other
DefaultWait == 5
WaitTimes == {1, 2, DefaultWait}

BackoffSame(w) == w
Backoff(w) == w * 2

FetchInit ==
    /\ fpc = "loop"
    /\ retries \in 0..MaxRetries
    /\ wait0 \in WaitTimes
    /\ wait_time = wait0
    /\ attempt = 0
    /\ gets = 0
    /\ sleeps = <<>>
    /\ outcomes = <<>>

\* requests.get returned a response: blocked -> sleep, double, next attempt;
\* otherwise return it
FetchResponse ==
    /\ fpc = "loop"
    /\ attempt < retries
    /\ \E response \in Responses :
         /\ gets' = gets + 1
         /\ IF is_blocked(response)
              THEN /\ sleeps' = Append(sleeps, wait_time)
                   /\ wait_time' = Backoff(wait_time)
                   /\ outcomes' = Append(outcomes, "blocked")
                   /\ attempt' = attempt + 1
                   /\ fpc' = "loop"
              ELSE /\ outcomes' = Append(outcomes, "ok")
                   /\ fpc' = "returned"
                   /\ UNCHANGED <<sleeps, wait_time, attempt>>
    /\ UNCHANGED <<retries, wait0>>
    /\ UNCHANGED <<resolveVars, diskVars, zipVars, scriptVars, orchVars>>

\* requests.get raised a RequestException: sleep, next attempt
FetchRaises ==
    /\ fpc = "loop"
    /\ attempt < retries
    /\ gets' = gets + 1
    /\ sleeps' = Append(sleeps, wait_time)
    /\ outcomes' = Append(outcomes, "error")
    /\ attempt' = attempt + 1
    /\ UNCHANGED <<fpc, retries, wait0, wait_time>>
    /\ UNCHANGED <<resolveVars, diskVars, zipVars, scriptVars, orchVars>>

\* the for loop ran out: return None
FetchExhausted ==
    /\ fpc = "loop"
    /\ attempt = retries
    /\ fpc' = "failed"
    /\ UNCHANGED <<retries, wait0, wait_time, attempt, gets, sleeps, outcomes>>
    /\ UNCHANGED <<resolveVars, diskVars, zipVars, scriptVars, orchVars>>

FetchNext == FetchResponse \/ FetchRaises \/ FetchExhausted

\* no call of fetch_url under way
FetchIdle ==
    /\ fpc = "idle"
    /\ retries = 0
    /\ wait0 = 0
    /\ wait_time = 0
    /\ attempt = 0
    /\ gets = 0
    /\ sleeps = <<>>
    /\ outcomes = <<>>

----------------------------------------------------------------------------
(* A parsed page (BeautifulSoup): the elements in document order.  An      *)
(* element is an anchor or a paragraph; a paragraph holds a text child     *)
(* (or none) and anchors.  href None is an anchor without the attribute.   *)

A(href, text) == [tag |-> "a", href |-> Some(href), text |-> text, kids |-> <<>>]
ANoHref(text) == [tag |-> "a", href |-> None, text |-> text, kids |-> <<>>]
P(text, kids) == [tag |-> "p", href |-> None, text |-> text, kids |-> kids]

\* element.string: the text of an element with a single child, through a
\* single child element; None otherwise
RECURSIVE StringOf(_)
StringOf(el) ==
    IF el.text # <<>> /\ el.kids = <<>> THEN el.text
    ELSE IF el.text = <<>> /\ Len(el.kids) = 1 THEN StringOf(el.kids[1])
    ELSE None

\* soup.find_all("a", href=True): the anchors with an href in document
\* order, each with its parent paragraph (find_parents below the document)
RECURSIVE find_all_a(_)
find_all_a(page) ==
    IF page = <<>> THEN <<>>
    ELSE LET el == Head(page)
             own == IF el.tag = "a" /\ el.href # None
                      THEN <<[href |-> el.href[1], text |-> el.text, parents |-> <<>>]>>
                      ELSE <<>>
             sub == LET ks == SelectSeq(el.kids, LAMBDA k : k.href # None)
                    IN  [i \in 1..Len(ks) |->
                           [href |-> ks[i].href[1], text |-> ks[i].text,
                            parents |-> <<el>>]]
         IN  own \o sub \o find_all_a(Tail(page))

DISCONTINUED == <<"Discontinued payments statistical tables">>

\* soup.find("p", string=lambda text: text and DISCONTINUED in text)
find_discontinued(page) ==
    LET hits == SelectSeq(page, LAMBDA el :
                    /\ el.tag = "p"
                    /\ StringOf(el) # None
                    /\ Contains(StringOf(el), DISCONTINUED))
    IN  IF hits = <<>> THEN None ELSE Some(Head(hits))

\* what fetch_url hands a resolver: None, or a response with its page;
\* `if not response` is true of None and of a response that is not ok
\* (requests: status 400 and above)
NoResponse == [none |-> TRUE, ok |-> FALSE, page |-> <<>>]
Response(ok, page) == [none |-> FALSE, ok |-> ok, page |-> page]
Falsy(response) == response.none \/ ~response.ok

----------------------------------------------------------------------------
(* Link resolvers *)

Origin(host) == <<"https:", "/", "/", host>>
ABS_ORIGIN == Origin("www.abs.gov.au")
RBA_ORIGIN == Origin("www.rba.gov.au")
APRA_ORIGIN == Origin("www.apra.gov.au")
NSW_ORIGIN == Origin("www.revenue.nsw.gov.au")

\* href if href.startswith("http") else f"{origin}{href}"
Absolutize(href, origin) ==
    IF StartsWithHttp(href) THEN href ELSE origin \o href

\* href.split("/")[-1].split("?")[0]
FileName(href) == FirstOf(Split(LastOf(Split(href, "/")), "?"))

TARGET_ABS_FILES ==
    { <<"Housing-Finance-Total", ".zip">>,
      <<"Housing-Finance-Owner-occupiers", ".zip">>,
      <<"Housing-Finance-Investors", ".zip">>,
      <<"Business-Finance", ".zip">>,
      <<"Housing-Finance-First-home-buyers", ".zip">> }

TARGET_INTEREST_FILES ==
    { <<"f01d", ".xlsx">>, <<"f01hist", ".xlsx">>, <<"f06hist", ".xlsx">> }

\* the loop of the exact-set resolvers over the anchors
RECURSIVE ExactSetLoop(_, _, _, _)
ExactSetLoop(links, targets, origin, valid_files) ==
    IF links = <<>> THEN valid_files
    ELSE LET href == Head(links).href
             file_name == FileName(href)
         IN  ExactSetLoop(Tail(links), targets, origin,
                 IF file_name \in targets
                   THEN DictSet(valid_files, file_name, Absolutize(href, origin))
                   ELSE valid_files)

get_abs_lending_files(response) ==
    IF Falsy(response) THEN <<>>
    ELSE ExactSetLoop(find_all_a(response.page), TARGET_ABS_FILES, ABS_ORIGIN, <<>>)

get_rba_interest_files(response) ==
    IF Falsy(response) THEN <<>>
    ELSE ExactSetLoop(find_all_a(response.page), TARGET_INTEREST_FILES, RBA_ORIGIN, <<>>)

\* the stop test of get_rba_payments_files: the marker paragraph was found
\* and is among the anchor's parents
InDiscontinued(discontinued_section, link) ==
    /\ discontinued_section # None
    /\ \E i \in 1..Len(link.parents) : link.parents[i] = discontinued_section[1]

RECURSIVE PaymentsLoop(_, _, _)
PaymentsLoop(links, discontinued_section, valid_files) ==
    IF links = <<>> THEN valid_files
    ELSE LET link == Head(links)
             href == link.href
         IN  IF InDiscontinued(discontinued_section, link) THEN valid_files
             ELSE IF Contains(href, <<"/", "xls-disc", "/">>)
               THEN PaymentsLoop(Tail(links), discontinued_section, valid_files)
             ELSE IF EndsWith(href, ".xls") \/ EndsWith(href, ".xlsx")
               THEN PaymentsLoop(Tail(links), discontinued_section,
                        Append(valid_files, Absolutize(href, RBA_ORIGIN)))
             ELSE PaymentsLoop(Tail(links), discontinued_section, valid_files)

get_rba_payments_files(response) ==
    IF Falsy(response) THEN <<>>
    ELSE PaymentsLoop(find_all_a(response.page),
                      find_discontinued(response.page), <<>>)

TIME_SERIES_ZIP == <<"Time-Series-Spreadsheets", ".zip">>
ALL_TIME_SERIES_ZIP == <<"All-", "Time-Series-Spreadsheets", ".zip">>
TIME_SERIES_ALL_ZIP == <<"Time-series-spreadsheets-all", ".zip">>
LABOUR_FORCE_FILE_PREFIX == <<"6202001">>
RETAIL_TRADE_FILE == ALL_TIME_SERIES_ZIP
TARGET_NSW_REVENUE_FILE == <<"transfer-duty-land-related-dsd-001", ".xlsx">>

\* the test each single-match resolver applies to an anchor
\* (get_apra_file: link.text.strip().lower(); strip drops outer blanks only)
Matches(rule, link) ==
    CASE rule = "abs_cpi_monthly" -> Contains(link.href, TIME_SERIES_ZIP)
      [] rule = "abs_cpi_quarterly" ->
             \/ Contains(link.href, ALL_TIME_SERIES_ZIP)
             \/ Contains(link.href, TIME_SERIES_ALL_ZIP)
      [] rule = "abs_labour_force" ->
             /\ Contains(link.href, LABOUR_FORCE_FILE_PREFIX)
             /\ EndsWith(link.href, ".xlsx")
      [] rule = "abs_retail_trade" -> Contains(link.href, RETAIL_TRADE_FILE)
      [] rule = "apra" ->
             /\ EndsWith(link.href, ".xlsx")
             /\ Contains(Lower(link.text), <<"back-series">>)
      [] rule = "nsw_revenue" -> Contains(link.href, TARGET_NSW_REVENUE_FILE)

\* the loop of the single-match resolvers: return at the first anchor that
\* matches, None when the loop ends
LastMatch(links, rule, origin) ==
    LET hits == SelectSeq(links, LAMBDA link : Matches(rule, link))
    IN  IF hits = <<>> THEN None
        ELSE Some(Absolutize(hits[Len(hits)].href, origin))
RECURSIVE FirstMatch(_, _, _)
FirstMatch(links, rule, origin) ==
    IF links = <<>> THEN None
    ELSE IF Matches(rule, Head(links))
      THEN Some(Absolutize(Head(links).href, origin))
      ELSE FirstMatch(Tail(links), rule, origin)

get_abs_cpi_monthly_file(response) ==
    IF Falsy(response) THEN None
    ELSE FirstMatch(find_all_a(response.page), "abs_cpi_monthly", ABS_ORIGIN)

get_abs_cpi_quarterly_file(response) ==
    IF Falsy(response) THEN None
    ELSE FirstMatch(find_all_a(response.page), "abs_cpi_quarterly", ABS_ORIGIN)

get_abs_labour_force_file(response) ==
    IF Falsy(response) THEN None
    ELSE FirstMatch(find_all_a(response.page), "abs_labour_force", ABS_ORIGIN)

get_abs_retail_trade_file(response) ==
    IF Falsy(response) THEN None
    ELSE FirstMatch(find_all_a(response.page), "abs_retail_trade", ABS_ORIGIN)

get_apra_file(response) ==
    IF Falsy(response) THEN None
    ELSE FirstMatch(find_all_a(response.page), "apra", APRA_ORIGIN)

get_nsw_revenue_file(response) ==
    IF Falsy(response) THEN None
    ELSE FirstMatch(find_all_a(response.page), "nsw_revenue", NSW_ORIGIN)

----------------------------------------------------------------------------
(* The pages the resolvers are run on: up to MaxNodes elements drawn from  *)
(* each site's kinds of anchors and paragraphs                             *)

LinkText == <<"Download">>

RbaNodes ==
    { A(<<"/", "xls", "/", "c01hist", ".xlsx">>, LinkText),
      A(<<"/", "xls-disc", "/", "c07hist", ".xls">>, LinkText),
      A(<<"/", "tables", "/", "f01d", ".xlsx">>, LinkText),
      A(<<"https:", "/", "/", "www.rba.gov.au", "/", "tables", "/",
          "f01hist", ".xlsx", "?", "v=1">>, LinkText),
      A(<<"xls", "/", "f06hist", ".xlsx">>, LinkText),
      A(<<"/", "tables", "/", "f01d", ".xlsx", "?", "path=a", "/", "b">>, LinkText),
      A(<<"/", "go", "?", "file=", "/", "f06hist", ".xlsx">>, LinkText),
      A(<<"httpdocs", "/", "f01hist", ".xlsx">>, LinkText),
      A(<<"/", "about", "/", "index", ".html">>, LinkText),
      ANoHref(LinkText),
      P(DISCONTINUED, <<>>),
      P(<<>>, <<A(<<"/", "xls", "/", "c05hist", ".xls">>, DISCONTINUED)>>),
      P(DISCONTINUED, <<A(<<"/", "xls", "/", "c06hist", ".xls">>, LinkText)>>) }

AbsNodes ==
    { A(<<"/", "lending", "/", "Housing-Finance-Total", ".zip">>, LinkText),
      A(<<"https:", "/", "/", "www.abs.gov.au", "/", "lending", "/",
          "Business-Finance", ".zip", "?", "v=2">>, LinkText),
      A(<<"lending", "/", "Housing-Finance-Investors", ".zip">>, LinkText),
      A(<<"/", "cpi", "/", "Time-Series-Spreadsheets", ".zip">>, LinkText),
      A(<<"/", "cpi", "/", "All-", "Time-Series-Spreadsheets", ".zip">>, LinkText),
      A(<<"/", "cpi", "/", "Time-series-spreadsheets-all", ".zip">>, LinkText),
      A(<<"/", "labour", "/", "6202001", ".xlsx">>, LinkText),
      A(<<"/", "labour", "/", "6202001", ".xlsx", "?", "v=1">>, LinkText),
      A(<<"/", "about", "/", "index", ".html">>, LinkText),
      ANoHref(LinkText) }

ApraNodes ==
    { A(<<"/", "sites", "/", "madis-back-series", ".xlsx">>, <<"Monthly", "Back-Series">>),
      A(<<"/", "sites", "/", "madis-back-series", ".xlsx">>, LinkText),
      A(<<"https:", "/", "/", "www.apra.gov.au", "/", "sites", "/", "madis",
          ".xlsx">>, <<"back-series">>),
      A(<<"sites", "/", "madis", ".xlsx">>, <<"back-series">>),
      A(<<"/", "sites", "/", "madis", ".pdf">>, <<"Monthly", "Back-Series">>),
      A(<<"/", "sites", "/", "Monthly", "%20", "back-series", ".xlsx">>,
        <<"back-series">>),
      ANoHref(<<"back-series">>) }

NswNodes ==
    { A(<<"/", "stats", "/", "transfer-duty-land-related-dsd-001", ".xlsx">>, LinkText),
      A(<<"https:", "/", "/", "www.revenue.nsw.gov.au", "/", "stats", "/",
          "transfer-duty-land-related-dsd-001", ".xlsx", "?", "v=1">>, LinkText),
      A(<<"stats", "/", "transfer-duty-land-related-dsd-001", ".xlsx">>, LinkText),
      A(<<"/", "/", "cdn.revenue.nsw.gov.au", "/",
          "transfer-duty-land-related-dsd-001", ".xlsx">>, LinkText),
      A(<<"/", "stats", "/", "transfer-duty-land-related-dsd-002", ".xlsx">>, LinkText),
      ANoHref(LinkText) }

Sites == {"abs", "apra", "nsw", "rba"}

NodesOf(s) ==
    CASE s = "abs" -> AbsNodes
      [] s = "apra" -> ApraNodes
      [] s = "nsw" -> NswNodes
      [] s = "rba" -> RbaNodes

PagesUpTo(nodes, n) == UNION {[1..m -> nodes] : m \in 0..n}

\* what fetch_url may hand back for a page of the site
ResponsesOf(s, n) ==
    {NoResponse} \cup {Response(ok, page) : ok \in BOOLEAN, page \in PagesUpTo(NodesOf(s), n)}

----------------------------------------------------------------------------
(* The resolvers, each applied to what fetch_url returned *)

ResolveInit ==
    /\ rpc = "fetched"
    /\ site \in Sites
    /\ fetched \in ResponsesOf(site, MaxNodes)
    /\ resolver = "none"
    /\ resolved = <<>>

Resolved(name, result) ==
    /\ rpc = "fetched"
    /\ rpc' = "resolved"
    /\ resolver' = name
    /\ resolved' = result
    /\ UNCHANGED <<site, fetched>>
    /\ UNCHANGED <<fetchVars, diskVars, zipVars, scriptVars, orchVars>>

ResolveAbsLending ==
    /\ site = "abs"
    /\ Resolved("abs_lending", get_abs_lending_files(fetched))
ResolveAbsCpiMonthly ==
    /\ site = "abs"
    /\ Resolved("abs_cpi_monthly", get_abs_cpi_monthly_file(fetched))
ResolveAbsCpiQuarterly ==
    /\ site = "abs"
    /\ Resolved("abs_cpi_quarterly", get_abs_cpi_quarterly_file(fetched))
ResolveAbsLabourForce ==
    /\ site = "abs"
    /\ Resolved("abs_labour_force", get_abs_labour_force_file(fetched))
ResolveAbsRetailTrade ==
    /\ site = "abs"
    /\ Resolved("abs_retail_trade", get_abs_retail_trade_file(fetched))
ResolveApra ==
    /\ site = "apra"
    /\ Resolved("apra", get_apra_file(fetched))
ResolveNsw ==
    /\ site = "nsw"
    /\ Resolved("nsw_revenue", get_nsw_revenue_file(fetched))
ResolveRbaPayments ==
    /\ site = "rba"
    /\ Resolved("rba_payments", get_rba_payments_files(fetched))
ResolveRbaInterest ==
    /\ site = "rba"
    /\ Resolved("rba_interest", get_rba_interest_files(fetched))

ResolveNext ==
    \/ ResolveAbsLending
    \/ ResolveAbsCpiMonthly
    \/ ResolveAbsCpiQuarterly
    \/ ResolveAbsLabourForce
    \/ ResolveAbsRetailTrade
    \/ ResolveApra
    \/ ResolveNsw
    \/ ResolveRbaPayments
    \/ ResolveRbaInterest

----------------------------------------------------------------------------
(* Retrieval sink: download_file and extract_zip over the folders' files *)

ABS_FOLDER == "ABS Data"
APRA_FOLDER == "APRA Data"
NSW_REVENUE_FOLDER == "NSW Revenue Data"
RBA_FOLDER == "RBA Data"

\* the content of a file: a ZIP container with its member names, or not one
NotZip == [zip |-> FALSE, members |-> <<>>]
Zip(members) == [zip |-> TRUE, members |-> members]

NoFiles == [path \in {} |-> NotZip]
WriteFile(d, path, content) ==
    [q \in (DOMAIN d) \cup {path} |-> IF q = path THEN content ELSE d[q]]

\* urllib.parse.unquote on the escapes that occur
UnquoteLexeme(x) ==
    CASE x = "%20" -> " "
      [] x = "%2F" -> "/"
      [] OTHER -> x
Unquote(s) == [i \in 1..Len(s) |-> UnquoteLexeme(s[i])]

\* os.path.join(save_folder, file_name)
PathJoin(folder, name) == <<folder, "/">> \o name

\* what the file server does with the GET of download_file
Raises == [kind |-> "raises", status_code |-> 0, body |-> NotZip]
Answer(status_code, body) == [kind |-> "response", status_code |-> status_code, body |-> body]

\* download_file(file_url, save_folder) on the files d, the server answering
\* `answer`: the exception raised ("none" if none), the GETs issued, the
\* status received (0 if none), the path written (None if none), the path
\* returned and the files afterwards.  The RBA script's download_file
\* returns nothing; its caller reads nothing.
DownloadIgnoringStatus(file_url, save_folder, answer, d) ==
    IF file_url = None
      THEN [raised |-> "AttributeError", gets |-> 0, status |-> 0,
            wrote |-> None, file_path |-> None, disk |-> d]
    ELSE IF answer.kind = "raises"
      THEN [raised |-> "RequestException", gets |-> 1, status |-> 0,
            wrote |-> None, file_path |-> None, disk |-> d]
    ELSE LET path == PathJoin(save_folder, Unquote(FileName(file_url[1])))
         IN  [raised |-> "none", gets |-> 1, status |-> answer.status_code,
              wrote |-> Some(path), file_path |-> Some(path),
              disk |-> WriteFile(d, path, answer.body)]
download_file(file_url, save_folder, answer, d) ==
    IF file_url = None
      THEN [raised |-> "AttributeError", gets |-> 0, status |-> 0,
            wrote |-> None, file_path |-> None, disk |-> d]
    ELSE IF answer.kind = "raises"
      THEN [raised |-> "RequestException", gets |-> 1, status |-> 0,
            wrote |-> None, file_path |-> None, disk |-> d]
    ELSE LET file_name == Unquote(FileName(file_url[1]))
             file_path == PathJoin(save_folder, file_name)
         IN  IF answer.status_code = 200
               THEN [raised |-> "none", gets |-> 1, status |-> 200,
                     wrote |-> Some(file_path), file_path |-> Some(file_path),
                     disk |-> WriteFile(d, file_path, answer.body)]
               ELSE [raised |-> "none", gets |-> 1, status |-> answer.status_code,
                     wrote |-> None, file_path |-> None, disk |-> d]

\* zipfile.is_zipfile(path): false of a missing file
is_zipfile(path, d) == path \in DOMAIN d /\ d[path].zip

\* the test of extract_zip on a member name
IsSpreadsheetXlsxOnly(file) == EndsWith(file, ".xlsx")
IsSpreadsheet(file) == EndsWith(file, ".xlsx") \/ EndsWith(file, ".xls")

\* extract_zip(zip_path, extract_folder): the members it hands to
\* zip_ref.extract, in namelist order; none when zip_path is None or the
\* file is missing or no ZIP
ExtractedMembers(zip_path, d) ==
    IF zip_path = None \/ ~is_zipfile(zip_path[1], d) THEN <<>>
    ELSE SelectSeq(d[zip_path[1]].members, IsSpreadsheet)

RECURSIVE WriteMembers(_, _, _)
WriteMembers(d, folder, members) ==
    IF members = <<>> THEN d
    ELSE WriteMembers(WriteFile(d, PathJoin(folder, Head(members)), NotZip),
                      folder, Tail(members))

\* the files after extract_zip(zip_path, extract_folder)
extract_zip(zip_path, extract_folder, d) ==
    WriteMembers(d, extract_folder, ExtractedMembers(zip_path, d))

\* the valid ZIPs extract_zip has opened, after opening zip_path
Opened(opened, zip_path, d) ==
    IF zip_path # None /\ is_zipfile(zip_path[1], d)
      THEN opened \cup {zip_path[1]}
      ELSE opened

----------------------------------------------------------------------------
(* One call of extract_zip, on a folder that holds at most the downloaded  *)
(* file                                                                    *)

MemberNames ==
    { <<"data", ".xlsx">>,
      <<"readme", ".txt">>,
      <<"data_old", ".xls">>,
      <<"notes", ".xlsx", ".bak">>,
      <<"tables", "/", "t1", ".xls">>,
      <<"macro", ".xlsm">>,
      <<"xls">> }

ZipContents == {NotZip} \cup {Zip(m) : m \in UNION {[1..n -> MemberNames] : n \in 0..MaxMembers}}

DOWNLOADED == PathJoin(ABS_FOLDER, <<"Housing-Finance-Total", ".zip">>)

ZipInit ==
    /\ zpc = "call"
    /\ zip_arg \in {None, Some(DOWNLOADED)}
    /\ disk \in {NoFiles} \cup {WriteFile(NoFiles, DOWNLOADED, c) : c \in ZipContents}
    /\ extract_calls = {}
    /\ extracted = <<>>

ExtractZip ==
    /\ zpc = "call"
    /\ extracted' = ExtractedMembers(zip_arg, disk)
    /\ disk' = extract_zip(zip_arg, ABS_FOLDER, disk)
    /\ extract_calls' = Opened(extract_calls, zip_arg, disk)
    /\ zpc' = "returned"
    /\ UNCHANGED zip_arg
    /\ UNCHANGED <<fetchVars, resolveVars, scriptVars, orchVars>>

ZipNext == ExtractZip

----------------------------------------------------------------------------
(* The main block of each downloader script.  A category is resolved from  *)
(* what fetch_url returns for its page, then its links are downloaded.     *)

\* what each resolver can return over the pages of its site
AbsLendingResults == {get_abs_lending_files(r) : r \in ResponsesOf("abs", MaxNodes)}
AbsCpiMonthlyResults == {get_abs_cpi_monthly_file(r) : r \in ResponsesOf("abs", MaxNodes)}
AbsCpiQuarterlyResults == {get_abs_cpi_quarterly_file(r) : r \in ResponsesOf("abs", MaxNodes)}
AbsLabourForceResults == {get_abs_labour_force_file(r) : r \in ResponsesOf("abs", MaxNodes)}
AbsRetailTradeResults == {get_abs_retail_trade_file(r) : r \in ResponsesOf("abs", MaxNodes)}
ApraResults == {get_apra_file(r) : r \in ResponsesOf("apra", MaxNodes)}
NswResults == {get_nsw_revenue_file(r) : r \in ResponsesOf("nsw", MaxNodes)}
RbaPaymentsResults == {get_rba_payments_files(r) : r \in ResponsesOf("rba", MaxNodes)}
RbaInterestResults == {get_rba_interest_files(r) : r \in ResponsesOf("rba", MaxNodes)}

\* what the file server may do with a download
SERIES == Zip(<< <<"data", ".xlsx">>, <<"readme", ".txt">>, <<"data_old", ".xls">> >>)
Answers == {Raises} \cup {Answer(200, NotZip), Answer(200, SERIES), Answer(404, NotZip)}

Scripts == {"ABS", "APRA", "NSW", "RBA"}

FirstStep(s) ==
    CASE s = "ABS" -> "abs_lending"
      [] s = "APRA" -> "apra"
      [] s = "NSW" -> "nsw_revenue"
      [] s = "RBA" -> "rba_payments"

ScriptInit ==
    /\ script \in Scripts
    /\ spc = FirstStep(script)
    /\ queue = <<>>
    /\ calls = <<>>
    /\ visited = <<>>
    /\ error = "none"
    /\ disk = NoFiles
    /\ extract_calls = {}

\* one call download_file(file_url, folder), then extract_zip on the path
\* it returned when the caller does that (`if zip_path:`), appended to log
CallRecord(file_url, r, extract) ==
    [url |-> file_url, gets |-> r.gets, status |-> r.status, wrote |-> r.wrote,
     raised |-> r.raised, extract |-> extract /\ r.file_path # None]

Download(log, file_url, folder, answer, extract) ==
    LET r == download_file(file_url, folder, answer, disk)
        unzip == extract /\ r.file_path # None
    IN  /\ calls' = Append(log, CallRecord(file_url, r, extract))
        /\ disk' = IF unzip THEN extract_zip(r.file_path, folder, r.disk) ELSE r.disk
        /\ extract_calls' = IF unzip THEN Opened(extract_calls, r.file_path, r.disk)
                                     ELSE extract_calls
        /\ error' = r.raised

\* where control goes after a download: on, or out with a traceback
After(r_raised, on) == IF r_raised = "none" THEN on ELSE "crashed"

\* a category whose resolver returns the links of a loop: resolve
ResolveList(at, loop, results) ==
    /\ spc = at
    /\ \E result \in results :
         /\ queue' = result
         /\ visited' = Append(visited, [category |-> at, found |-> result # <<>>])
    /\ calls' = <<>>
    /\ spc' = loop
    /\ UNCHANGED <<script, error, diskVars>>
    /\ UNCHANGED <<fetchVars, resolveVars, zipVars, orchVars>>

\* one iteration of such a loop: download_file on the next link
LoopDownload(loop, folder, extract) ==
    /\ spc = loop
    /\ Len(calls) < Len(queue)
    /\ \E answer \in Answers :
         /\ Download(calls, Some(queue[Len(calls) + 1]), folder, answer, extract)
         /\ spc' = After(error', loop)
    /\ UNCHANGED <<script, queue, visited>>
    /\ UNCHANGED <<fetchVars, resolveVars, zipVars, orchVars>>

\* the loop ran out of links (or the list was empty)
LoopDone(loop, on) ==
    /\ spc = loop
    /\ Len(calls) = Len(queue)
    /\ spc' = on
    /\ UNCHANGED <<script, queue, calls, visited, error, diskVars>>
    /\ UNCHANGED <<fetchVars, resolveVars, zipVars, orchVars>>

\* download_file(get_x(), folder): the resolver's result goes to
\* download_file as it is
DownloadUnguarded(at, on, results, folder) ==
    /\ spc = at
    /\ \E file_url \in results, answer \in Answers :
         /\ visited' = Append(visited, [category |-> at, found |-> file_url # None])
         /\ Download(<<>>, file_url, folder, answer, FALSE)
         /\ spc' = After(error', on)
    /\ UNCHANGED <<script, queue>>
    /\ UNCHANGED <<fetchVars, resolveVars, zipVars, orchVars>>

\* x = get_x(); if x: download_file(x, folder) [and extract_zip]; else: notice
DownloadGuarded(at, on, results, folder, extract) ==
    /\ spc = at
    /\ \E file_url \in results, answer \in Answers :
         /\ visited' = Append(visited, [category |-> at, found |-> file_url # None])
         /\ IF file_url # None
              THEN /\ Download(<<>>, file_url, folder, answer, extract)
                   /\ spc' = After(error', on)
              ELSE /\ calls' = <<>>
                   /\ spc' = on
                   /\ UNCHANGED <<error, diskVars>>
    /\ UNCHANGED <<script, queue>>
    /\ UNCHANGED <<fetchVars, resolveVars, zipVars, orchVars>>

\* ABS_downloader.py
AbsLending ==
    /\ script = "ABS"
    /\ ResolveList("abs_lending", "abs_lending_loop",
                   {DictValues(d) : d \in AbsLendingResults})
AbsLendingDownload ==
    /\ script = "ABS"
    /\ LoopDownload("abs_lending_loop", ABS_FOLDER, TRUE)
AbsLendingDone ==
    /\ script = "ABS"
    /\ LoopDone("abs_lending_loop", "abs_cpi_monthly")
AbsCpiMonthly ==
    /\ script = "ABS"
    /\ DownloadUnguarded("abs_cpi_monthly", "abs_cpi_quarterly",
                         AbsCpiMonthlyResults, ABS_FOLDER)
AbsCpiQuarterly ==
    /\ script = "ABS"
    /\ DownloadUnguarded("abs_cpi_quarterly", "abs_labour_force",
                         AbsCpiQuarterlyResults, ABS_FOLDER)
AbsLabourForce ==
    /\ script = "ABS"
    /\ DownloadUnguarded("abs_labour_force", "abs_retail_trade",
                         AbsLabourForceResults, ABS_FOLDER)
AbsRetailTrade ==
    /\ script = "ABS"
    /\ DownloadGuarded("abs_retail_trade", "exit", AbsRetailTradeResults,
                       ABS_FOLDER, TRUE)

\* APRA_downloader.py
Apra ==
    /\ script = "APRA"
    /\ DownloadGuarded("apra", "exit", ApraResults, APRA_FOLDER, FALSE)

\* NSW_Revenue_downloader.py
NswRevenue ==
    /\ script = "NSW"
    /\ DownloadGuarded("nsw_revenue", "exit", NswResults, NSW_REVENUE_FOLDER, FALSE)

\* RBA_downloader.py
RbaPayments ==
    /\ script = "RBA"
    /\ ResolveList("rba_payments", "rba_payments_loop", RbaPaymentsResults)
RbaPaymentsDownload ==
    /\ script = "RBA"
    /\ LoopDownload("rba_payments_loop", RBA_FOLDER, FALSE)
RbaPaymentsDone ==
    /\ script = "RBA"
    /\ LoopDone("rba_payments_loop", "rba_interest")
RbaInterest ==
    /\ script = "RBA"
    /\ ResolveList("rba_interest", "rba_interest_loop",
                   {DictValues(d) : d \in RbaInterestResults})
RbaInterestDownload ==
    /\ script = "RBA"
    /\ LoopDownload("rba_interest_loop", RBA_FOLDER, FALSE)
RbaInterestDone ==
    /\ script = "RBA"
    /\ LoopDone("rba_interest_loop", "exit")

ScriptNext ==
    \/ AbsLending
    \/ AbsLendingDownload
    \/ AbsLendingDone
    \/ AbsCpiMonthly
    \/ AbsCpiQuarterly
    \/ AbsLabourForce
    \/ AbsRetailTrade
    \/ Apra
    \/ NswRevenue
    \/ RbaPayments
    \/ RbaPaymentsDownload
    \/ RbaPaymentsDone
    \/ RbaInterest
    \/ RbaInterestDownload
    \/ RbaInterestDone

----------------------------------------------------------------------------
(* The orchestrator: run-all-script.py *)

scripts ==
    <<"ABS_downloader.py", "APRA_downloader.py",
      "NSW_Revenue_downloader.py", "RBA_downloader.py">>

\* how subprocess.run([sys.executable, script_path], check=True) ends: the
\* script exits 0, exits non-zero (CalledProcessError), or cannot be
\* launched (another Exception)
RunEndings == {"exit 0", "CalledProcessError", "Exception"}

\* run_script(script_name) when subprocess.run ends that way: the notice
\* printed and whether an exception leaves run_script
run_script_uncaught(script_name, ending) ==
    [notice |-> IF ending = "exit 0" THEN "completed successfully" ELSE "none",
     raises |-> ending # "exit 0"]
run_script(script_name, ending) ==
    [notice |-> CASE ending = "exit 0" -> "completed successfully"
                  [] ending = "CalledProcessError" -> "Error running"
                  [] OTHER -> "Unexpected error running",
     raises |-> FALSE]

OrchInit ==
    /\ opc = "scripts"
    /\ next_script = 1
    /\ ran = <<>>
    /\ notices = <<>>

\* one iteration of `for script in scripts: run_script(script)`
RunScript ==
    /\ opc = "scripts"
    /\ next_script <= Len(scripts)
    /\ \E ending \in RunEndings :
         LET r == run_script(scripts[next_script], ending)
         IN  /\ ran' = Append(ran, [script |-> scripts[next_script], ending |-> ending])
             /\ notices' = Append(notices, r.notice)
             /\ IF r.raises
                  THEN opc' = "traceback" /\ UNCHANGED next_script
                  ELSE opc' = "scripts" /\ next_script' = next_script + 1
    /\ UNCHANGED <<fetchVars, resolveVars, diskVars, zipVars, scriptVars>>

\* after the loop: print "All downloads completed!", sleep, return
AllCompleted ==
    /\ opc = "scripts"
    /\ next_script > Len(scripts)
    /\ notices' = Append(notices, "All downloads completed!")
    /\ opc' = "completed"
    /\ UNCHANGED <<next_script, ran>>
    /\ UNCHANGED <<fetchVars, resolveVars, diskVars, zipVars, scriptVars>>

OrchNext == RunScript \/ AllCompleted

----------------------------------------------------------------------------
(* Specifications: each runs one part, the others at rest *)

ResolveIdle ==
    /\ rpc = "idle"
    /\ site = "none"
    /\ fetched = NoResponse
    /\ resolver = "none"
    /\ resolved = <<>>

DiskIdle ==
    /\ disk = NoFiles
    /\ extract_calls = {}

ZipIdle ==
    /\ zpc = "idle"
    /\ zip_arg = None
    /\ extracted = <<>>

ScriptIdle ==
    /\ script = "none"
    /\ spc = "idle"
    /\ queue = <<>>
    /\ calls = <<>>
    /\ visited = <<>>
    /\ error = "none"

OrchIdle ==
    /\ opc = "idle"
    /\ next_script = 0
    /\ ran = <<>>
    /\ notices = <<>>

\* one call of fetch_url
InitFetch == FetchInit /\ ResolveIdle /\ DiskIdle /\ ZipIdle /\ ScriptIdle /\ OrchIdle
SpecFetch == InitFetch /\ [][FetchNext]_vars

\* one call of a resolver on what fetch_url returned
InitResolve == ResolveInit /\ FetchIdle /\ DiskIdle /\ ZipIdle /\ ScriptIdle /\ OrchIdle
SpecResolve == InitResolve /\ [][ResolveNext]_vars

\* one call of extract_zip
InitZip == ZipInit /\ FetchIdle /\ ResolveIdle /\ ScriptIdle /\ OrchIdle
SpecZip == InitZip /\ [][ZipNext]_vars

\* one run of one downloader script
InitScript == ScriptInit /\ FetchIdle /\ ResolveIdle /\ ZipIdle /\ OrchIdle
SpecScript == InitScript /\ [][ScriptNext]_vars

\* one run of the orchestrator; each step of main is taken in turn
InitOrch == OrchInit /\ FetchIdle /\ ResolveIdle /\ DiskIdle /\ ZipIdle /\ ScriptIdle
SpecOrch == InitOrch /\ [][OrchNext]_vars /\ WF_vars(OrchNext)

\* the default specification
Spec == SpecScript

----------------------------------------------------------------------------
(* Claims about fetch_url *)

RECURSIVE Pow2(_)
Pow2(n) == IF n = 0 THEN 1 ELSE 2 * Pow2(n - 1)

OnlyBlocked == \A i \in 1..Len(outcomes) : outcomes[i] = "blocked"

\* C2: facing only blocked responses, the wait slept after the N-th blocked
\* attempt is wait_time * 2^(N-1), every blocked attempt is followed by a
\* sleep, and no more than `retries` GET requests are issued; the call that
\* gives up has issued exactly `retries` of them.
C2_BackoffDoubles ==
    OnlyBlocked =>
        /\ Len(sleeps) = Len(outcomes)
        /\ \A N \in 1..Len(sleeps) : sleeps[N] = wait0 * Pow2(N - 1)
        /\ gets <= retries
        /\ (fpc = "failed" => gets = retries)

C2_Witness ==
    /\ fpc = "failed"
    /\ OnlyBlocked
    /\ retries = 3
    /\ sleeps = <<5, 10, 20>>

\* C3: after every failed attempt, blocked or transport error, the wait for
\* the next attempt is twice the wait before it.
C3_EveryFailureDoubles ==
    \A k \in 1..(Len(sleeps) - 1) : sleeps[k + 1] = 2 * sleeps[k]

----------------------------------------------------------------------------
(* Claims about the resolvers *)

Range(f) == {f[i] : i \in DOMAIN f}

\* the index of the first paragraph of the page that find() takes for the
\* discontinued-section marker
MarkerIndex(page) ==
    CHOOSE i \in 1..Len(page) :
        /\ Some(page[i]) = find_discontinued(page)
        /\ \A j \in 1..(i - 1) : Some(page[j]) # find_discontinued(page)

\* an anchor the RBA payments rule accepts when it is not in the exclusion zone
Qualifies(link) ==
    /\ link.href[Len(link.href)] \in {".xls", ".xlsx"}
    /\ ~Contains(link.href, <<"/", "xls-disc", "/">>)

\* C1: on a page with the discontinued-section marker, the RBA payments
\* result holds exactly one link per qualifying anchor that comes before the
\* marker in document order: no anchor after the marker, nested in it or
\* not, adds a link.
C1_NothingAfterMarker ==
    (/\ rpc = "resolved"
     /\ resolver = "rba_payments"
     /\ ~Falsy(fetched)
     /\ find_discontinued(fetched.page) # None)
    => LET before == find_all_a(SubSeq(fetched.page, 1, MarkerIndex(fetched.page) - 1))
       IN  Len(resolved) = Len(SelectSeq(before, Qualifies))

\* the final path segment of an href: the path is what precedes the first
\* "?", its final segment what follows the last "/" of the path
FinalPathSegment(href) == LastOf(Split(FirstOf(Split(href, "?")), "/"))

IsSuffix(t, u) == Len(t) <= Len(u) /\ SubSeq(u, Len(u) - Len(t) + 1, Len(u)) = t

TargetsOf(name) ==
    IF name = "abs_lending" THEN TARGET_ABS_FILES ELSE TARGET_INTEREST_FILES

\* C4: for a fetched page the exact-set resolvers return exactly the target
\* filenames that are the final path segment (query string stripped) of some
\* anchor's href, each with the URL of an anchor of that filename.
C4_ExactSetKeys ==
    (/\ rpc = "resolved"
     /\ resolver \in {"abs_lending", "rba_interest"}
     /\ ~Falsy(fetched))
    => LET anchors == find_all_a(fetched.page)
       IN  /\ DictKeys(resolved) =
                {t \in TargetsOf(resolver) :
                    \E i \in 1..Len(anchors) : FinalPathSegment(anchors[i].href) = t}
           /\ \A n \in 1..Len(resolved) :
                \E i \in 1..Len(anchors) :
                    /\ FinalPathSegment(anchors[i].href) = resolved[n].k
                    /\ IsSuffix(anchors[i].href, resolved[n].v)

\* the URLs a resolver's result holds
UrlsOf(name, result) ==
    IF name \in {"abs_lending", "rba_interest"} THEN {result[n].v : n \in 1..Len(result)}
    ELSE Range(result)

\* an absolute http(s) URL: scheme, "//", a host, then nothing or a path
\* that starts with one "/", or a query
IsAbsoluteUrl(u) ==
    /\ Len(u) >= 4
    /\ u[1] \in {"https:", "http:"}
    /\ u[2] = "/" /\ u[3] = "/"
    /\ u[4] \notin {"/", "?"}
    /\ Len(u) >= 5 => u[5] \in {"/", "?"}
    /\ Len(u) >= 6 => ~(u[5] = "/" /\ u[6] = "/")

\* C5: every URL a resolver returns is a well-formed absolute URL, whatever
\* the form of the href it was made from.
C5_UrlsAbsolute ==
    rpc = "resolved" => \A u \in UrlsOf(resolver, resolved) : IsAbsoluteUrl(u)

SingleMatch ==
    {"abs_cpi_monthly", "abs_cpi_quarterly", "abs_labour_force",
     "abs_retail_trade", "apra", "nsw_revenue"}

\* the origin a single-match resolver puts before an href
OriginOf(name) ==
    CASE name = "apra" -> APRA_ORIGIN
      [] name = "nsw_revenue" -> NSW_ORIGIN
      [] OTHER -> ABS_ORIGIN

\* the places, in document order, of the anchors that satisfy the rule
HitsOf(name, anchors) == {i \in 1..Len(anchors) : Matches(name, anchors[i])}

FirstOfSet(S) == CHOOSE i \in S : \A j \in S : i <= j

\* C12: a single-match resolver returns at most one link; it returns None
\* exactly when the fetch failed or no anchor of the page satisfies the
\* rule's predicate; otherwise it returns the URL of the first anchor, in
\* document order, that satisfies it, whatever anchors follow.
C12_FirstMatchWins ==
    (rpc = "resolved" /\ resolver \in SingleMatch)
    => LET anchors == find_all_a(fetched.page)
           hits == HitsOf(resolver, anchors)
       IN  /\ Len(resolved) <= 1
           /\ (resolved = None) <=> (Falsy(fetched) \/ hits = {})
           /\ resolved # None
                => LET href == anchors[FirstOfSet(hits)].href
                   IN  resolved[1] \in {href, OriginOf(resolver) \o href}

C12_Witness ==
    /\ rpc = "resolved"
    /\ resolver = "nsw_revenue"
    /\ ~Falsy(fetched)
    /\ LET anchors == find_all_a(fetched.page)
       IN  /\ HitsOf(resolver, anchors) = {1, 2}
           /\ anchors[1].href # anchors[2].href
           /\ resolved = Some(NSW_ORIGIN \o anchors[1].href)

----------------------------------------------------------------------------
(* Claims about the scripts' main blocks *)

LastCategory == visited[Len(visited)]

\* C6: when the resolver of a category yields no link, download_file is not
\* called for the category, no exception ends the script there, and the
\* script goes on.
C6_NoLinkSkipsDownload ==
    (visited # <<>> /\ ~LastCategory.found)
    => /\ calls = <<>>
       /\ error = "none"
       /\ spc # "crashed"

MultiFile == {"abs_lending", "rba_payments", "rba_interest"}

LoopOf(category) ==
    CASE category = "abs_lending" -> "abs_lending_loop"
      [] category = "rba_payments" -> "rba_payments_loop"
      [] category = "rba_interest" -> "rba_interest_loop"

\* C8: in a multi-file category download_file is called once per resolved
\* URL, in order, with one GET each; a non-200 answer writes no file and does
\* not end the script; and the loop is left only when every resolved URL has
\* been attempted, unless a download raised.
C8_FailedDownloadSkipsOneFile ==
    (visited # <<>> /\ LastCategory.category \in MultiFile)
    => /\ Len(calls) <= Len(queue)
       /\ \A i \in 1..Len(calls) :
            /\ calls[i].url = Some(queue[i])
            /\ calls[i].gets = 1
            /\ (calls[i].raised = "none" /\ calls[i].status # 200)
                   => calls[i].wrote = None
            /\ calls[i].raised # "none" => (i = Len(calls) /\ spc = "crashed")
       /\ spc = "crashed" => (calls # <<>> /\ calls[Len(calls)].raised # "none")
       /\ spc \notin {LoopOf(LastCategory.category), "crashed"}
              => Len(calls) = Len(queue)

C8_Witness ==
    /\ visited # <<>>
    /\ LastCategory.category = "rba_payments"
    /\ Len(queue) = 2
    /\ Len(calls) = 2
    /\ calls[1].status = 404 /\ calls[1].wrote = None
    /\ calls[2].status = 200 /\ calls[2].wrote # None
    /\ spc = "rba_interest"

\* C9: when the ABS script ends, every valid ZIP it saved has been handed to
\* extraction.
C9_SavedZipsExtracted ==
    (script = "ABS" /\ spc = "exit")
    => \A path \in DOMAIN disk :
         (disk[path].zip /\ EndsWith(path, ".zip")) => path \in extract_calls

\* the name under which a path of a folder was saved
SavedName(path) == SubSeq(path, 3, Len(path))

\* C11: every file download_file saves is named by the final path segment of
\* the URL it was given, query string stripped and then percent-decoded,
\* whatever the shape of the URL, a query string that holds "/" included.
C11_FileNameIsFinalSegment ==
    \A i \in 1..Len(calls) :
        calls[i].wrote # None
        => SavedName(calls[i].wrote[1]) = Unquote(FinalPathSegment(calls[i].url[1]))

----------------------------------------------------------------------------
(* Claims about extract_zip *)

\* a member name that ends in a spreadsheet extension
SpreadsheetName(m) == Len(m) > 0 /\ m[Len(m)] \in {".xlsx", ".xls"}

----------------------------------------------------------------------------
(* Claims about the orchestrator *)

OrchOrder ==
    /\ opc \in {"scripts", "completed"}
    /\ Len(ran) <= Len(scripts)
    /\ \A i \in 1..Len(ran) : ran[i].script = scripts[i]
    /\ Len(notices) >= Len(ran)
    /\ opc = "completed"
         => /\ Len(ran) = Len(scripts)
            /\ notices[Len(notices)] = "All downloads completed!"

\* C7: main runs the four scripts in the order ABS, APRA, NSW Revenue, RBA,
\* one after the other, goes on to the next script however one ended, and
\* every run ends with the notice "All downloads completed!".
C7_AllScriptsAttempted == [](OrchOrder) /\ <>(opc = "completed")

C7_Witness ==
    /\ opc = "completed"
    /\ ran[1].ending = "CalledProcessError"
    /\ ran[2].ending = "Exception"
    /\ ran[4].ending = "exit 0"

====
